---- MODULE Spec2Model ----
(***************************************************************************)
(* The reef dashboard of reef.py (HexDataDashboard) as a state machine:    *)
(* the node registry (42 dots, 6 hexagon sides), the canvas fill colours,  *)
(* the hover tracking, the NetworkTables table as the client reads and     *)
(* writes it, and the periodic poll.                                       *)
(*                                                                         *)
(* The QuestNav manager dashboard of questnav.py (QuestNavManagerDashboard)*)
(* as a second state machine over the same table, connection, status label *)
(* and timer variables: the input fields, the Enabled checkbox, the tag    *)
(* images, the initial sync with its wait loop, and the button handlers.   *)
(* One run is one of the two programs: focus.app says which.               *)
(***************************************************************************)
EXTENDS Integers, Sequences, FiniteSets, TLC

VARIABLES
    dot_nodes,              \* canvas id -> [is_active, is_flagged, has_algae]   (DotNode)
    hexagon_sides,          \* canvas id -> [is_flagged]                         (HexSideNode)
    fill,                   \* canvas id -> fill colour of the canvas item
    currently_hovered_id,   \* canvas id, or None
    nt,                     \* the table: topic path -> string value (absent key = no value)
    connected,              \* inst.isConnected()
    status_label,           \* text of the status label
    pending,                \* number of periodic_update callbacks scheduled with after()
    lastOp,                 \* history: the handler that ran last
    published,              \* history: entry.set calls of the last step, in order
    redraws,                \* history: canvas.itemconfig calls of the last step, in order
    reads,                  \* history: number of getString calls of the last step
    chain,                  \* history: the clicks on the same dot directly before the last click
    focus,                  \* environment: the program that runs, and what the user and
                            \* the robot act on
    initial_sync_done,      \* questnav: self.initial_sync_done
    enabled_var,            \* questnav: the Enabled checkbox (BooleanVar)
    field_var,              \* questnav: text of the Field Select entry (StringVar)
    layout_var,             \* questnav: text of the Layout Select entry (StringVar)
    tag_data,               \* questnav: tag id -> [current_filter, filtered_photos, image]
    pc                      \* questnav: "mainloop", or "sync_inputs_from_nt" while
                            \* periodic_update is inside the wait loop

\* the variables only reef.py has, only questnav.py has, and all of them
reef_vars == <<dot_nodes, hexagon_sides, fill, currently_hovered_id, redraws, reads, chain>>
questnav_vars == <<initial_sync_done, enabled_var, field_var, layout_var, tag_data, pc>>
vars == <<dot_nodes, hexagon_sides, fill, currently_hovered_id, nt, connected,
          status_label, pending, lastOp, published, redraws, reads, chain, focus,
          initial_sync_done, enabled_var, field_var, layout_var, tag_data, pc>>

----------------------------------------------------------------------------
(* Configuration and layout constants *)

NT_SERVER_IP == "127.0.0.1"
NT_TABLE_NAME == "SmartDashboard/ReefState"

NumSides == 6
NumSubReefs == 2

None == 0
NoSubReef == -1
NoName == "None"

COLORS ==
    [bg |-> "#1a1a2e", purple |-> "#8A2BE2", purple_hover |-> "#be7dfd",
     white_toggled |-> "#FFFFFF", green |-> "#39FF14", green_hover |-> "#98FB98",
     green_toggled |-> "#1a3b1f", red_flagged |-> "#FF4136"]

purple_radii_names == <<"level_1", "level_2", "level_3">>

level_map == [level_1 |-> "L2", level_2 |-> "L3", level_3 |-> "L4"]

\* faulty variant: an inverse map that pairs level Ln with radius level_n
inverse_level_map_ByNumber ==
    [i \in 1..Len(purple_radii_names) |->
        <<level_map[purple_radii_names[i]],
          purple_radii_names[(i % Len(purple_radii_names)) + 1]>>]

\* {v: k for k, v in level_map.items()}, as the list of its items in dict order
inverse_level_map ==
    [i \in 1..Len(purple_radii_names) |->
        <<level_map[purple_radii_names[i]], purple_radii_names[i]>>]

\* The dots of one side in the order draw_orbital_dots creates them: for each
\* radius the two sub-reef dots, then the green dot.
DotsOfSide(side_id) ==
    [k \in 1..(Len(purple_radii_names) * NumSubReefs + 1) |->
        IF k = Len(purple_radii_names) * NumSubReefs + 1
        THEN [type |-> "green", side_id |-> side_id, sub_reef_id |-> NoSubReef,
              radius_name |-> NoName, level_name |-> NoName]
        ELSE LET radius_name == purple_radii_names[((k - 1) \div NumSubReefs) + 1]
             IN  [type |-> "purple", side_id |-> side_id,
                  sub_reef_id |-> (k - 1) % NumSubReefs,
                  radius_name |-> radius_name,
                  level_name |-> level_map[radius_name]]]

DotsPerSide == Len(DotsOfSide(0))
NumDots == NumSides * DotsPerSide

\* canvas id -> the constant attributes of the DotNode drawn with that id
\* (canvas item ids are handed out from 1 in creation order; the dots are drawn first)
DotRegistry ==
    [c \in 1..NumDots |-> DotsOfSide((c - 1) \div DotsPerSide)[((c - 1) % DotsPerSide) + 1]]

DotIds == DOMAIN DotRegistry

\* canvas id -> side_id of the HexSideNode drawn with that id (drawn after the dots)
HexRegistry == [h \in (NumDots + 1)..(NumDots + NumSides) |-> h - NumDots - 1]

HexIds == DOMAIN HexRegistry

purple_dots_lookup(side_id, sub_reef_id, radius_name) ==
    LET S == {c \in DotIds : /\ DotRegistry[c].type = "purple"
                             /\ DotRegistry[c].side_id = side_id
                             /\ DotRegistry[c].sub_reef_id = sub_reef_id
                             /\ DotRegistry[c].radius_name = radius_name}
    IN  IF S = {} THEN None ELSE CHOOSE c \in S : TRUE

green_dots_lookup(side_id) ==
    LET S == {c \in DotIds : /\ DotRegistry[c].type = "green"
                             /\ DotRegistry[c].side_id = side_id}
    IN  IF S = {} THEN None ELSE CHOOSE c \in S : TRUE

hex_sides_lookup(side_id) ==
    LET S == {h \in HexIds : HexRegistry[h] = side_id}
    IN  IF S = {} THEN None ELSE CHOOSE h \in S : TRUE

----------------------------------------------------------------------------
(* The table: paths, reads and writes *)

\* NetworkTableInstance.getTable(name): the table's path
TablePath == "/" \o NT_TABLE_NAME

\* table.getSubTable(key), table.getStringTopic(name), table.getString(key, ..):
\* the path of a key below a table
SubPath(table_path, key) == table_path \o "/" \o key

\* table.getString(key, default)
GetString(path, default) == IF path \in DOMAIN nt THEN nt[path] ELSE default

\* the table after the entry.set calls of one handler, in order
RECURSIVE NtSet(_, _)
NtSet(table, calls) ==
    IF calls = <<>> THEN table
    ELSE LET c == Head(calls)
         IN  NtSet([p \in DOMAIN table \cup {c.path} |->
                        IF p = c.path THEN c.value ELSE table[p]],
                   Tail(calls))

----------------------------------------------------------------------------
(* Visual reducer *)

\* faulty variant: _update_dot_visuals that ignores the hover tracking
UpdateDotVisuals_NoHover(c, node, hovered) ==
    IF node.is_flagged THEN COLORS.red_flagged
    ELSE IF node.is_active
         THEN (IF DotRegistry[c].type = "purple" THEN COLORS.white_toggled
                                                  ELSE COLORS.green_toggled)
         ELSE (IF DotRegistry[c].type = "purple" THEN COLORS.purple ELSE COLORS.green)

\* the colour _update_dot_visuals gives the dot with canvas id c in state node
UpdateDotVisuals(c, node, hovered) ==
    IF node.is_flagged THEN COLORS.red_flagged
    ELSE IF node.is_active
         THEN (IF DotRegistry[c].type = "purple" THEN COLORS.white_toggled
                                                  ELSE COLORS.green_toggled)
         ELSE IF c = hovered
              THEN (IF DotRegistry[c].type = "purple" THEN COLORS.purple_hover
                                                       ELSE COLORS.green_hover)
              ELSE (IF DotRegistry[c].type = "purple" THEN COLORS.purple
                                                       ELSE COLORS.green)

UpdateHexSideVisuals(node) ==
    IF node.is_flagged THEN COLORS.red_flagged ELSE COLORS.purple

\* faulty variant: reset_hover_visuals that never restores the default colour
ResetHoverVisuals_NoReset(colours, canvas_id) == colours

\* the fill colours after reset_hover_visuals(canvas_id)
ResetHoverVisuals(colours, canvas_id) ==
    IF /\ canvas_id \in DotIds
       /\ ~dot_nodes[canvas_id].is_active
       /\ ~dot_nodes[canvas_id].is_flagged
    THEN [colours EXCEPT ![canvas_id] =
             IF DotRegistry[canvas_id].type = "purple" THEN COLORS.purple ELSE COLORS.green]
    ELSE colours

\* the itemconfig calls reset_hover_visuals(canvas_id) makes
ResetHoverRedraws(canvas_id) ==
    IF /\ canvas_id \in DotIds
       /\ ~dot_nodes[canvas_id].is_active
       /\ ~dot_nodes[canvas_id].is_flagged
    THEN <<canvas_id>> ELSE <<>>

----------------------------------------------------------------------------
(* Publishing *)

DotStateStr(node) ==
    IF node.is_flagged THEN "RESTRICTED"
    ELSE IF node.is_active THEN "GAMEPIECE" ELSE "EMPTY"

\* faulty variant: a purple topic built from radius_name instead of level_name
DotTopic_RadiusName(c) ==
    IF DotRegistry[c].type = "green"
    THEN SubPath(TablePath, "Side" \o ToString(DotRegistry[c].side_id) \o "/Algae")
    ELSE SubPath(TablePath, "Side" \o ToString(DotRegistry[c].side_id) \o "/"
                              \o ToString(DotRegistry[c].sub_reef_id) \o "/"
                              \o DotRegistry[c].radius_name)

\* the topic publish_dot_state writes for the dot with canvas id c
DotTopic(c) ==
    IF DotRegistry[c].type = "green"
    THEN SubPath(TablePath, "Side" \o ToString(DotRegistry[c].side_id) \o "/Algae")
    ELSE SubPath(TablePath, "Side" \o ToString(DotRegistry[c].side_id) \o "/"
                              \o ToString(DotRegistry[c].sub_reef_id) \o "/"
                              \o DotRegistry[c].level_name)

DotTopics == [c \in DotIds |-> DotTopic(c)]

\* faulty variant: publish_dot_state without the green branch
PublishDotState_PurpleOnly(c, node) ==
    IF DotRegistry[c].type = "purple"
    THEN <<[path |-> DotTopics[c], value |-> DotStateStr(node)]>>
    ELSE <<>>

\* the entry.set calls of publish_dot_state
PublishDotState(c, node) ==
    IF DotRegistry[c].type \in {"green", "purple"}
    THEN <<[path |-> DotTopics[c], value |-> DotStateStr(node)]>>
    ELSE <<>>

HexSideStateStr(node) == IF node.is_flagged THEN "RESTRICTED" ELSE "ALLOWED"

HexSideTopic(h) == SubPath(TablePath, "Side" \o ToString(HexRegistry[h]) \o "/State")

HexSideTopics == [h \in HexIds |-> HexSideTopic(h)]

\* the entry.set calls of publish_hex_side_state
PublishHexSideState(h, node) ==
    <<[path |-> HexSideTopics[h], value |-> HexSideStateStr(node)]>>

----------------------------------------------------------------------------
(* Environment: what the pointer, the other clients and the network do *)

\* The nodes the pointer and the other clients act on in one run: either side
\* 2's sub-reef-0 dot of level L3 and side 2's green dot, or that purple dot and
\* side 2's hexagon side.  Nodes interact only through currently_hovered_id, so
\* two dots exercise every interaction between nodes.
Focuses ==
    {[app |-> "reef", dots |-> {purple_dots_lookup(2, 0, "level_2"), green_dots_lookup(2)},
      hexes |-> {}, tags |-> {}, writes |-> {}, texts |-> {}, handlers |-> {}],
     [app |-> "reef", dots |-> {purple_dots_lookup(2, 0, "level_2")},
      hexes |-> {hex_sides_lookup(2)}, tags |-> {}, writes |-> {}, texts |-> {},
      handlers |-> {}]}

PointerDots == focus.dots
PointerHexSides == focus.hexes

\* the values other clients write: the recognised ones, then unrecognised ones
RemoteValueSeq == <<"GAMEPIECE", "RESTRICTED", "ALLOWED", "EMPTY", "BOGUS">>
NumRemoteValues == 3
RemoteValues == {RemoteValueSeq[i] : i \in 1..NumRemoteValues}

\* the topics other clients write
RemotePaths == {DotTopics[c] : c \in PointerDots} \cup {HexSideTopics[h] : h \in PointerHexSides}

\* whether an entry.set reaches the table that getString reads: it does while
\* connected; while disconnected the client library decides
WriteOutcomes == IF connected THEN {TRUE} ELSE BOOLEAN

\* root.mainloop() dispatches events only after __init__, which ends with the
\* first periodic_update(), has returned
Started == status_label # "Connecting..."

\* history record: the handler, the node it acted on, that node's record before
\* it (click handlers), and for a poll tick the click or tick it directly follows
NoRecord == [is_flagged |-> FALSE]
Op(name, id, before, after) == [op |-> name, id |-> id, before |-> before, after |-> after]

ClickOps == {"handle_left_click", "handle_right_click", "handle_hex_side_toggle"}

\* history: the clicks that directly precede a click on the dot c and were made
\* on c too, oldest first, the last MaxChain of them
MaxChain == 2
ChainBefore(c) ==
    IF lastOp.op \in {"handle_left_click", "handle_right_click"} /\ lastOp.id = c
    THEN LET all == Append(chain, [op |-> lastOp.op, before |-> lastOp.before])
         IN  IF Len(all) > MaxChain THEN SubSeq(all, Len(all) - MaxChain + 1, Len(all)) ELSE all
    ELSE <<>>

\* history record of a poll tick: the click, remote write or tick it directly
\* follows and the node that one was about
TickOp ==
    Op("periodic_update",
       IF lastOp.op \in ClickOps \cup {"remote_write"} THEN lastOp.id ELSE None, NoRecord,
       IF lastOp.op \in ClickOps \cup {"periodic_update", "remote_write"} THEN lastOp.op ELSE "-")

----------------------------------------------------------------------------
(* Event handlers *)

\* faulty variant: a left click that toggles is_active also when it clears the flag
LeftClickNode_AlwaysToggles(c, node) ==
    LET n1 == [node EXCEPT !.is_flagged = FALSE, !.is_active = ~node.is_active]
    IN  IF DotRegistry[c].type = "green"
        THEN [n1 EXCEPT !.has_algae = n1.is_active]
        ELSE n1

\* the DotNode after handle_left_click
LeftClickNode(c, node) ==
    LET n1 == IF node.is_flagged
              THEN [node EXCEPT !.is_flagged = FALSE]
              ELSE [node EXCEPT !.is_active = ~node.is_active]
    IN  IF DotRegistry[c].type = "green"
        THEN [n1 EXCEPT !.has_algae = n1.is_active]
        ELSE n1

\* faulty variant: a right click that flags without clearing is_active
RightClickNode_KeepsActive(c, node) == [node EXCEPT !.is_flagged = ~node.is_flagged]

\* the DotNode after handle_right_click
RightClickNode(c, node) ==
    LET n1 == [node EXCEPT !.is_flagged = ~node.is_flagged]
    IN  IF n1.is_flagged THEN [n1 EXCEPT !.is_active = FALSE] ELSE n1

\* the HexSideNode after handle_hex_side_toggle
HexSideToggleNode(node) == [node EXCEPT !.is_flagged = ~node.is_flagged]

\* a click handler on a dot: mutate, redraw, publish
DotClick(name, c, node) ==
    /\ dot_nodes' = [dot_nodes EXCEPT ![c] = node]
    /\ fill' = [fill EXCEPT ![c] = UpdateDotVisuals(c, node, currently_hovered_id)]
    /\ redraws' = <<c>>
    /\ published' = PublishDotState(c, node)
    /\ \E delivered \in WriteOutcomes :
          nt' = IF delivered THEN NtSet(nt, PublishDotState(c, node)) ELSE nt
    /\ reads' = 0
    /\ lastOp' = Op(name, c, dot_nodes[c], "-")
    /\ chain' = ChainBefore(c)
    /\ UNCHANGED <<hexagon_sides, currently_hovered_id, connected, status_label, pending, focus>>

handle_left_click(clicked_id) ==
    /\ Started
    /\ clicked_id \in DotIds
    /\ DotClick("handle_left_click", clicked_id, LeftClickNode(clicked_id, dot_nodes[clicked_id]))

handle_right_click(clicked_id) ==
    /\ Started
    /\ clicked_id \in DotIds
    /\ DotClick("handle_right_click", clicked_id, RightClickNode(clicked_id, dot_nodes[clicked_id]))

handle_hex_side_toggle(clicked_id) ==
    /\ Started
    /\ clicked_id \in HexIds
    /\ LET node == HexSideToggleNode(hexagon_sides[clicked_id])
       IN  /\ hexagon_sides' = [hexagon_sides EXCEPT ![clicked_id] = node]
           /\ fill' = [fill EXCEPT ![clicked_id] = UpdateHexSideVisuals(node)]
           /\ redraws' = <<clicked_id>>
           /\ published' = PublishHexSideState(clicked_id, node)
           /\ \E delivered \in WriteOutcomes :
                 nt' = IF delivered THEN NtSet(nt, PublishHexSideState(clicked_id, node))
                                    ELSE nt
    /\ reads' = 0
    /\ lastOp' = Op("handle_hex_side_toggle", clicked_id, hexagon_sides[clicked_id], "-")
    /\ chain' = <<>>
    /\ UNCHANGED <<dot_nodes, currently_hovered_id, connected, status_label, pending, focus>>

\* faulty variant: on_dot_enter that highlights the dot whatever its state
DotEnterFill_AlwaysHover(new_hovered_id) ==
    LET f1 == IF currently_hovered_id # None /\ currently_hovered_id # new_hovered_id
              THEN ResetHoverVisuals(fill, currently_hovered_id)
              ELSE fill
    IN  [f1 EXCEPT ![new_hovered_id] =
            IF DotRegistry[new_hovered_id].type = "purple"
            THEN COLORS.purple_hover ELSE COLORS.green_hover]

\* the fill colours after on_dot_enter on the dot new_hovered_id
DotEnterFill(new_hovered_id) ==
    LET f1 == IF currently_hovered_id # None /\ currently_hovered_id # new_hovered_id
              THEN ResetHoverVisuals(fill, currently_hovered_id)
              ELSE fill
    IN  IF /\ new_hovered_id \in DotIds
           /\ ~dot_nodes[new_hovered_id].is_active
           /\ ~dot_nodes[new_hovered_id].is_flagged
        THEN [f1 EXCEPT ![new_hovered_id] =
                 IF DotRegistry[new_hovered_id].type = "purple"
                 THEN COLORS.purple_hover ELSE COLORS.green_hover]
        ELSE f1

DotEnterRedraws(new_hovered_id) ==
    (IF currently_hovered_id # None /\ currently_hovered_id # new_hovered_id
     THEN ResetHoverRedraws(currently_hovered_id) ELSE <<>>)
    \o (IF /\ new_hovered_id \in DotIds
           /\ ~dot_nodes[new_hovered_id].is_active
           /\ ~dot_nodes[new_hovered_id].is_flagged
        THEN <<new_hovered_id>> ELSE <<>>)

on_dot_enter(new_hovered_id) ==
    /\ Started
    /\ fill' = DotEnterFill(new_hovered_id)
    /\ redraws' = DotEnterRedraws(new_hovered_id)
    /\ currently_hovered_id' = new_hovered_id
    /\ published' = <<>>
    /\ reads' = 0
    /\ lastOp' = Op("on_dot_enter", new_hovered_id, NoRecord, "-")
    /\ chain' = <<>>
    /\ UNCHANGED <<dot_nodes, hexagon_sides, nt, connected, status_label, pending, focus>>

on_dot_leave ==
    /\ Started
    /\ IF currently_hovered_id # None
       THEN /\ fill' = ResetHoverVisuals(fill, currently_hovered_id)
            /\ redraws' = ResetHoverRedraws(currently_hovered_id)
            /\ currently_hovered_id' = None
       ELSE /\ redraws' = <<>>
            /\ UNCHANGED <<fill, currently_hovered_id>>
    /\ published' = <<>>
    /\ reads' = 0
    /\ lastOp' = Op("on_dot_leave", None, NoRecord, "-")
    /\ chain' = <<>>
    /\ UNCHANGED <<dot_nodes, hexagon_sides, nt, connected, status_label, pending, focus>>

----------------------------------------------------------------------------
(* Sync from the table *)

\* faulty variant: a decoding whose default sets both flags
StickState_DefaultBoth(nt_val) ==
    CASE nt_val = "EMPTY" -> <<FALSE, FALSE>>
      [] nt_val = "GAMEPIECE" -> <<TRUE, FALSE>>
      [] nt_val = "RESTRICTED" -> <<FALSE, TRUE>>
      [] OTHER -> <<TRUE, TRUE>>

\* stick_state_map.get(nt_val, (False, False)) as <<new_active, new_flagged>>
StickState(nt_val) ==
    CASE nt_val = "EMPTY" -> <<FALSE, FALSE>>
      [] nt_val = "GAMEPIECE" -> <<TRUE, FALSE>>
      [] nt_val = "RESTRICTED" -> <<FALSE, TRUE>>
      [] OTHER -> <<FALSE, FALSE>>

\* side_state_map.get(nt_val, False)
SideState(nt_val) ==
    CASE nt_val = "ALLOWED" -> FALSE
      [] nt_val = "RESTRICTED" -> TRUE
      [] OTHER -> FALSE

\* the nodes one pass of the side loop of sync_from_nt looks up, in order, each
\* with the topic path it reads for the node: the hexagon side, the green dot,
\* then for each sub-reef the dots of inverse_level_map's items
SideVisits(side_id) ==
    LET side_table == SubPath(TablePath, "Side" \o ToString(side_id))
    IN  << [kind |-> "hex", node |-> hex_sides_lookup(side_id),
            path |-> SubPath(side_table, "State")],
           [kind |-> "green", node |-> green_dots_lookup(side_id),
            path |-> SubPath(side_table, "Algae")] >>
        \o [k \in 1..(NumSubReefs * Len(inverse_level_map)) |->
              LET sub_reef_id == (k - 1) \div Len(inverse_level_map)
                  item == inverse_level_map[((k - 1) % Len(inverse_level_map)) + 1]
                  branch_table == SubPath(side_table, ToString(sub_reef_id))
              IN  [kind |-> "purple",
                   node |-> purple_dots_lookup(side_id, sub_reef_id, item[2]),
                   path |-> SubPath(branch_table, item[1])]]

VisitsPerSide == Len(SideVisits(0))

\* all lookups of sync_from_nt in loop order; "if node:" skips the missing ones
SyncVisits ==
    SelectSeq([i \in 1..(NumSides * VisitsPerSide) |->
                  SideVisits((i - 1) \div VisitsPerSide)[((i - 1) % VisitsPerSide) + 1]],
              LAMBDA v : v.node # None)

\* the lookups of sync_from_nt that reach node n, in loop order
VisitsOfNode ==
    [n \in DotIds \cup HexIds |-> SelectSeq(SyncVisits, LAMBDA v : v.node = n)]

\* faulty variant: a pull that sets a hexagon side's flag but never clears one
SyncHexVisit_KeepsLocalFlag(st, v) ==
    LET new_flagged == SideState(GetString(v.path, "ALLOWED"))
    IN  IF ~st.node.is_flagged /\ new_flagged
        THEN [node |-> [st.node EXCEPT !.is_flagged = new_flagged],
              fill |-> UpdateHexSideVisuals([st.node EXCEPT !.is_flagged = new_flagged]),
              drawn |-> TRUE]
        ELSE [st EXCEPT !.drawn = FALSE]

\* one hexagon side's part of the loop: st = [node, fill, drawn] is the side's
\* record, its fill colour and whether this visit redrew it
SyncHexVisit(st, v) ==
    LET new_flagged == SideState(GetString(v.path, "ALLOWED"))
    IN  IF st.node.is_flagged # new_flagged
        THEN [node |-> [st.node EXCEPT !.is_flagged = new_flagged],
              fill |-> UpdateHexSideVisuals([st.node EXCEPT !.is_flagged = new_flagged]),
              drawn |-> TRUE]
        ELSE [st EXCEPT !.drawn = FALSE]

\* faulty variant: the diff that compares is_active only
SyncDotVisit_ActiveOnlyDiff(st, v) ==
    LET new == StickState(GetString(v.path, "EMPTY"))
        node == IF v.kind = "green"
                THEN [is_active |-> new[1], is_flagged |-> new[2], has_algae |-> new[1]]
                ELSE [st.node EXCEPT !.is_active = new[1], !.is_flagged = new[2]]
    IN  IF st.node.is_active # new[1]
        THEN [node |-> node,
              fill |-> UpdateDotVisuals(v.node, node, currently_hovered_id),
              drawn |-> TRUE]
        ELSE [st EXCEPT !.drawn = FALSE]

\* faulty variant: no diff, every dot is assigned and redrawn on every pull
SyncDotVisit_NoDiff(st, v) ==
    LET new == StickState(GetString(v.path, "EMPTY"))
        node == IF v.kind = "green"
                THEN [is_active |-> new[1], is_flagged |-> new[2], has_algae |-> new[1]]
                ELSE [st.node EXCEPT !.is_active = new[1], !.is_flagged = new[2]]
    IN  [node |-> node,
         fill |-> UpdateDotVisuals(v.node, node, currently_hovered_id),
         drawn |-> TRUE]

\* one dot's part of the loop (the green branch also sets has_algae)
SyncDotVisit(st, v) ==
    LET new == StickState(GetString(v.path, "EMPTY"))
        node == IF v.kind = "green"
                THEN [is_active |-> new[1], is_flagged |-> new[2], has_algae |-> new[1]]
                ELSE [st.node EXCEPT !.is_active = new[1], !.is_flagged = new[2]]
    IN  IF st.node.is_active # new[1] \/ st.node.is_flagged # new[2]
        THEN [node |-> node,
              fill |-> UpdateDotVisuals(v.node, node, currently_hovered_id),
              drawn |-> TRUE]
        ELSE [st EXCEPT !.drawn = FALSE]

SyncVisit(st, v) == IF v.kind = "hex" THEN SyncHexVisit(st, v) ELSE SyncDotVisit(st, v)

RECURSIVE SyncFold(_, _)
SyncFold(st, visits) ==
    IF visits = <<>> THEN st ELSE SyncFold(SyncVisit(st, Head(visits)), Tail(visits))

\* node n before the loop of sync_from_nt
NodeBefore(n) ==
    [node |-> IF n \in DotIds THEN dot_nodes[n] ELSE hexagon_sides[n],
     fill |-> fill[n], drawn |-> FALSE]

\* node n after the whole loop of sync_from_nt
NodeAfter(n) == SyncFold(NodeBefore(n), VisitsOfNode[n])

\* whether the i-th lookup of the loop redraws its node
VisitRedraws(i) ==
    LET v == SyncVisits[i]
        earlier == SelectSeq(SubSeq(SyncVisits, 1, i - 1), LAMBDA w : w.node = v.node)
    IN  SyncVisit(SyncFold(NodeBefore(v.node), earlier), v).drawn

\* sync_from_nt: the nodes, the colours and the itemconfig calls, in loop order
SyncFromNt ==
    [dots |-> [c \in DotIds |-> NodeAfter(c).node],
     hexes |-> [h \in HexIds |-> NodeAfter(h).node],
     fill |-> [n \in DotIds \cup HexIds |-> NodeAfter(n).fill],
     redraws |-> LET drawn == SelectSeq([i \in 1..Len(SyncVisits) |-> i],
                                        LAMBDA i : VisitRedraws(i))
                 IN  [j \in 1..Len(drawn) |-> SyncVisits[drawn[j]].node]]

ConnectedText == "Connected to " \o NT_SERVER_IP
DisconnectedText == "Disconnected - trying to connect to " \o NT_SERVER_IP

\* master.after(UPDATE_PERIOD_MS, self.periodic_update) at the end of a run
Reschedule(n) == n + 1

\* faulty variant: a tick that pulls without asking isConnected()
periodic_update_AlwaysSync ==
    /\ pending > 0
    /\ status_label' = (IF connected THEN ConnectedText ELSE DisconnectedText)
    /\ \E s \in {SyncFromNt} :
          /\ dot_nodes' = s.dots
          /\ hexagon_sides' = s.hexes
          /\ fill' = s.fill
          /\ redraws' = s.redraws
    /\ reads' = Len(SyncVisits)
    /\ pending' = Reschedule(pending - 1)
    /\ published' = <<>>
    /\ lastOp' = TickOp
    /\ chain' = <<>>
    /\ UNCHANGED <<currently_hovered_id, nt, connected, focus>>

periodic_update ==
    /\ pending > 0
    /\ IF connected
       THEN /\ status_label' = ConnectedText
            /\ \E s \in {SyncFromNt} :
                  /\ dot_nodes' = s.dots
                  /\ hexagon_sides' = s.hexes
                  /\ fill' = s.fill
                  /\ redraws' = s.redraws
            /\ reads' = Len(SyncVisits)
       ELSE /\ status_label' = DisconnectedText
            /\ redraws' = <<>>
            /\ reads' = 0
            /\ UNCHANGED <<dot_nodes, hexagon_sides, fill>>
    /\ pending' = Reschedule(pending - 1)
    /\ published' = <<>>
    /\ lastOp' = TickOp
    /\ chain' = <<>>
    /\ UNCHANGED <<currently_hovered_id, nt, connected, focus>>

----------------------------------------------------------------------------
(* Environment steps *)

\* the topic a node is published to
OwnTopic(n) == IF n \in HexIds THEN HexSideTopics[n] ELSE DotTopics[n]

\* another client (the robot) sets a topic; the history records the node whose
\* topic it overwrites when it directly follows a click on that node
RemoteWrite(path, value) ==
    /\ nt' = NtSet(nt, <<[path |-> path, value |-> value]>>)
    /\ published' = <<>>
    /\ redraws' = <<>>
    /\ reads' = 0
    /\ lastOp' = Op("remote_write",
                    IF lastOp.op \in ClickOps /\ path = OwnTopic(lastOp.id)
                    THEN lastOp.id ELSE None, NoRecord, "-")
    /\ chain' = <<>>
    /\ UNCHANGED <<dot_nodes, hexagon_sides, fill, currently_hovered_id, connected,
                   status_label, pending, focus>>

\* the client connects to, or loses, the server
ConnectionChange ==
    /\ connected' = ~connected
    /\ published' = <<>>
    /\ redraws' = <<>>
    /\ reads' = 0
    /\ lastOp' = Op("connection", None, NoRecord, "-")
    /\ chain' = <<>>
    /\ UNCHANGED <<dot_nodes, hexagon_sides, fill, currently_hovered_id, nt,
                   status_label, pending, focus>>

----------------------------------------------------------------------------
(* questnav.py: configuration, table access and tag images *)

qn_NT_SERVER_IP == "127.0.0.1"
qn_NT_TABLE_NAME == "SmartDashboard/QuestNavManager"

\* the keys of APRILTAG_COORDS; every tag image loads, so all are in tag_data
NumTags == 22
TagIds == 1..NumTags

\* inst.getTable(NT_TABLE_NAME), table.getSubTable("Tags")
qn_TablePath == "/" \o qn_NT_TABLE_NAME
qn_TagsPath == SubPath(qn_TablePath, "Tags")

\* the path of a key or topic of the table
qn_Topic(name) == SubPath(qn_TablePath, name)

\* table.getNumber(key, default), table.getBoolean(key, default)
GetNumber(path, default) == IF path \in DOMAIN nt THEN nt[path] ELSE default
GetBoolean(path, default) == IF path \in DOMAIN nt THEN nt[path] ELSE default

\* str(i) of an integer, and int(s) of an entry's text: IntTexts[s] is the
\* integer a text stands for, a text outside its domain raises ValueError
IntText(i) == ToString(i)
IntTexts == [s \in {IntText(i) : i \in -1..9} |-> CHOOSE i \in -1..9 : IntText(i) = s]

\* the filter update_tag_colors_from_nt requires of a tag
RequiredFilter(active_tag_id, tag_status, tag_id) ==
    LET is_red_status == (tag_status = 0)
        is_blue_status == (active_tag_id = tag_id)
    IN  IF is_red_status /\ is_blue_status THEN "magenta"
        ELSE IF is_red_status THEN "red"
        ELSE IF is_blue_status THEN "blue"
        ELSE NoName

\* update_tag_visual on one tag's record; readable says whether
\* _apply_filter_to_image can open the tag's image file
UpdateTagVisual(tag_info, filter_name, readable) ==
    IF filter_name \in tag_info.filtered_photos
    THEN [tag_info EXCEPT !.image = filter_name]
    ELSE IF readable
         THEN [tag_info EXCEPT !.filtered_photos = @ \cup {filter_name}, !.image = filter_name]
         ELSE tag_info

\* reset_tag_visual on one tag's record
ResetTagVisual(tag_info) == [tag_info EXCEPT !.image = "original"]

\* one pass of the loop of update_tag_colors_from_nt
UpdateTagFromNt(tag_id, tag_info, readable) ==
    LET active_tag_id == GetNumber(qn_Topic("ActiveTag"), -1)
        tag_status == GetNumber(SubPath(qn_TagsPath, IntText(tag_id)), -1)
        required_filter == RequiredFilter(active_tag_id, tag_status, tag_id)
    IN  IF tag_info.current_filter # required_filter
        THEN [(IF required_filter = NoName
               THEN ResetTagVisual(tag_info)
               ELSE UpdateTagVisual(tag_info, required_filter, readable))
              EXCEPT !.current_filter = required_filter]
        ELSE tag_info

\* update_tag_colors_from_nt; unreadable are the tags whose image file cannot
\* be opened during this call
UpdateTagColorsFromNt(unreadable) ==
    [t \in TagIds |-> UpdateTagFromNt(t, tag_data[t], t \notin unreadable)]

\* the condition of the wait loop of sync_inputs_from_nt
SyncKeysMissing ==
    \/ qn_Topic("SelectedFieldIndex") \notin DOMAIN nt
    \/ qn_Topic("SelectedLayoutIndex") \notin DOMAIN nt

\* sync_inputs_from_nt after its loop: the texts and the checkbox it sets
SyncInputsFromNt ==
    [field |-> IntText(GetNumber(qn_Topic("SelectedFieldIndex"), -1)),
     layout |-> IntText(GetNumber(qn_Topic("SelectedLayoutIndex"), -1)),
     enabled |-> GetBoolean(qn_Topic("Enabled"), TRUE)]

qn_ConnectedText == "Connected to " \o qn_NT_SERVER_IP
qn_DisconnectedText == "Disconnected - trying to connect to " \o qn_NT_SERVER_IP

----------------------------------------------------------------------------
(* questnav.py: environment *)

\* What the user and the robot act on in one run of questnav.py: the input
\* fields and the Enabled checkbox, with the robot writing the three keys the
\* initial sync reads; or tag 1, with the robot writing the active tag and tag
\* 1's status; or the Calibrate and Delete buttons.  In the last two the robot
\* also writes the two keys the initial sync waits for.
QuestNavFocuses ==
    {[app |-> "questnav", dots |-> {}, hexes |-> {}, tags |-> {},
      writes |-> {[path |-> qn_Topic("SelectedFieldIndex"), value |-> 0],
                  [path |-> qn_Topic("SelectedLayoutIndex"), value |-> 1],
                  [path |-> qn_Topic("Enabled"), value |-> FALSE],
                  [path |-> qn_Topic("Enabled"), value |-> TRUE]},
      texts |-> {"2", "x"},
      handlers |-> {"on_enabled_toggle", "on_apply_clicked"}],
     [app |-> "questnav", dots |-> {}, hexes |-> {}, tags |-> {1},
      writes |-> {[path |-> qn_Topic("SelectedFieldIndex"), value |-> 0],
                  [path |-> qn_Topic("SelectedLayoutIndex"), value |-> 0],
                  [path |-> qn_Topic("ActiveTag"), value |-> 1],
                  [path |-> qn_Topic("ActiveTag"), value |-> 2],
                  [path |-> SubPath(qn_TagsPath, "1"), value |-> 0],
                  [path |-> SubPath(qn_TagsPath, "1"), value |-> 1]},
      texts |-> {},
      handlers |-> {}],
     [app |-> "questnav", dots |-> {}, hexes |-> {}, tags |-> {},
      writes |-> {[path |-> qn_Topic("SelectedFieldIndex"), value |-> 0],
                  [path |-> qn_Topic("SelectedLayoutIndex"), value |-> 0]},
      texts |-> {},
      handlers |-> {"on_calibrate_clicked", "on_delete_clicked"}]}

\* the event loop dispatches a handler: __init__ is over and no callback is
\* still running
Dispatching == Started /\ pc = "mainloop"

\* history record of a questnav handler: what the handler found (the checkbox
\* before a toggle, initial_sync_done before a tick) goes into before, the
\* dialog it showed or the way it took into after
qn_Record == [is_flagged |-> FALSE, initial_sync_done |-> initial_sync_done,
              enabled_var |-> enabled_var]

\* the entry.set calls of a handler reach the table
qn_Publish(calls) ==
    /\ published' = calls
    /\ \E delivered \in WriteOutcomes : nt' = IF delivered THEN NtSet(nt, calls) ELSE nt

\* a handler's "not connected" branch: the warning dialog, nothing else
ShowWarning(name, id) ==
    /\ published' = <<>>
    /\ lastOp' = Op(name, id, IF name = "on_enabled_toggle" THEN qn_Record ELSE NoRecord,
                    "showwarning")
    /\ UNCHANGED nt

----------------------------------------------------------------------------
(* questnav.py: event handlers *)

\* faulty variant: a tag click that publishes without asking isConnected()
handle_tag_click_NoCheck(tag_id) ==
    /\ Dispatching
    /\ tag_id \in DOMAIN tag_data
    /\ qn_Publish(<<[path |-> qn_Topic("SetActiveTag"), value |-> tag_id]>>)
    /\ lastOp' = Op("handle_tag_click", tag_id, NoRecord, "-")
    /\ UNCHANGED <<connected, status_label, pending, focus, questnav_vars>>

handle_tag_click(tag_id) ==
    /\ Dispatching
    /\ tag_id \in DOMAIN tag_data
    /\ IF ~connected
       THEN ShowWarning("handle_tag_click", tag_id)
       ELSE /\ qn_Publish(<<[path |-> qn_Topic("SetActiveTag"), value |-> tag_id]>>)
            /\ lastOp' = Op("handle_tag_click", tag_id, NoRecord, "-")
    /\ UNCHANGED <<connected, status_label, pending, focus, questnav_vars>>

on_calibrate_clicked ==
    /\ Dispatching
    /\ IF ~connected
       THEN ShowWarning("on_calibrate_clicked", None)
       ELSE /\ qn_Publish(<<[path |-> qn_Topic("SetCalibration"), value |-> TRUE]>>)
            /\ lastOp' = Op("on_calibrate_clicked", None, NoRecord, "-")
    /\ UNCHANGED <<connected, status_label, pending, focus, questnav_vars>>

\* a click on the Enabled checkbox: the Checkbutton negates enabled_var, then
\* calls on_enabled_toggle
on_enabled_toggle ==
    /\ Dispatching
    /\ LET toggled == ~enabled_var
       IN  IF ~connected
           THEN /\ ShowWarning("on_enabled_toggle", None)
                /\ enabled_var' = GetBoolean(qn_Topic("Enabled"), toggled)
           ELSE /\ enabled_var' = toggled
                /\ qn_Publish(<<[path |-> qn_Topic("enabled"), value |-> toggled]>>)
                /\ lastOp' = Op("on_enabled_toggle", None, qn_Record, "-")
    /\ UNCHANGED <<connected, status_label, pending, focus,
                   initial_sync_done, field_var, layout_var, tag_data, pc>>

\* the user types into the Field Select or the Layout Select entry
EntryEdit(entry, text) ==
    /\ Dispatching
    /\ IF entry = "field"
       THEN field_var' = text /\ UNCHANGED layout_var
       ELSE layout_var' = text /\ UNCHANGED field_var
    /\ published' = <<>>
    /\ lastOp' = Op("entry", None, NoRecord, entry)
    /\ UNCHANGED <<nt, connected, status_label, pending, focus,
                   initial_sync_done, enabled_var, tag_data, pc>>

on_apply_clicked ==
    /\ Dispatching
    /\ IF ~connected
       THEN ShowWarning("on_apply_clicked", None)
       ELSE IF field_var \notin DOMAIN IntTexts \/ layout_var \notin DOMAIN IntTexts
       THEN /\ published' = <<>>
            /\ lastOp' = Op("on_apply_clicked", None, NoRecord, "showerror")
            /\ UNCHANGED nt
       ELSE /\ qn_Publish(<<[path |-> qn_Topic("SelectedFieldIndex"),
                             value |-> IntTexts[field_var]],
                            [path |-> qn_Topic("SelectedLayoutIndex"),
                             value |-> IntTexts[layout_var]],
                            [path |-> qn_Topic("Changed"), value |-> TRUE]>>)
            /\ lastOp' = Op("on_apply_clicked", None, NoRecord, "-")
    /\ UNCHANGED <<connected, status_label, pending, focus, questnav_vars>>

\* confirmed is the user's answer to askyesno
on_delete_clicked(confirmed) ==
    /\ Dispatching
    /\ IF ~connected
       THEN ShowWarning("on_delete_clicked", None)
       ELSE IF confirmed
       THEN /\ qn_Publish(<<[path |-> qn_Topic("SetDelete"), value |-> 1]>>)
            /\ lastOp' = Op("on_delete_clicked", None, NoRecord, "askyesno")
       ELSE /\ published' = <<>>
            /\ lastOp' = Op("on_delete_clicked", None, NoRecord, "askyesno")
            /\ UNCHANGED nt
    /\ UNCHANGED <<connected, status_label, pending, focus, questnav_vars>>

----------------------------------------------------------------------------
(* questnav.py: the periodic update and the initial sync *)

\* the rest of a connected periodic_update once sync_inputs_from_nt is past its
\* loop (or is not called): the inputs, initial_sync_done, the tag images and
\* the next tick
FinishConnectedUpdate(sync, scheduled) ==
    /\ IF sync
       THEN /\ field_var' = SyncInputsFromNt.field
            /\ layout_var' = SyncInputsFromNt.layout
            /\ enabled_var' = SyncInputsFromNt.enabled
       ELSE UNCHANGED <<field_var, layout_var, enabled_var>>
    /\ initial_sync_done' = TRUE
    /\ \E unreadable \in SUBSET focus.tags : tag_data' = UpdateTagColorsFromNt(unreadable)
    /\ pending' = Reschedule(scheduled)
    /\ pc' = "mainloop"

\* faulty variant: a periodic_update that goes on without the initial sync
\* while the keys are missing
qn_periodic_update_SkipsWait ==
    /\ pc = "mainloop"
    /\ pending > 0
    /\ IF connected
       THEN /\ status_label' = qn_ConnectedText
            /\ FinishConnectedUpdate(~initial_sync_done /\ ~SyncKeysMissing, pending - 1)
            /\ lastOp' = Op("periodic_update", None, qn_Record,
                            IF initial_sync_done THEN "-" ELSE "sync_inputs_from_nt")
       ELSE /\ status_label' = qn_DisconnectedText
            /\ initial_sync_done' = FALSE
            /\ pending' = Reschedule(pending - 1)
            /\ lastOp' = Op("periodic_update", None, qn_Record, "-")
            /\ UNCHANGED <<field_var, layout_var, enabled_var, tag_data, pc>>
    /\ published' = <<>>
    /\ UNCHANGED <<nt, connected, focus>>

\* periodic_update up to its return, or up to the wait loop of
\* sync_inputs_from_nt when that finds a key missing
qn_periodic_update ==
    /\ pc = "mainloop"
    /\ pending > 0
    /\ IF connected
       THEN /\ status_label' = qn_ConnectedText
            /\ IF ~initial_sync_done /\ SyncKeysMissing
               THEN /\ pc' = "sync_inputs_from_nt"
                    /\ pending' = pending - 1
                    /\ lastOp' = Op("periodic_update", None, qn_Record, "waiting")
                    /\ UNCHANGED <<initial_sync_done, field_var, layout_var, enabled_var,
                                   tag_data>>
               ELSE /\ FinishConnectedUpdate(~initial_sync_done, pending - 1)
                    /\ lastOp' = Op("periodic_update", None, qn_Record,
                                    IF initial_sync_done THEN "-" ELSE "sync_inputs_from_nt")
       ELSE /\ status_label' = qn_DisconnectedText
            /\ initial_sync_done' = FALSE
            /\ pending' = Reschedule(pending - 1)
            /\ lastOp' = Op("periodic_update", None, qn_Record, "-")
            /\ UNCHANGED <<field_var, layout_var, enabled_var, tag_data, pc>>
    /\ published' = <<>>
    /\ UNCHANGED <<nt, connected, focus>>

\* one more turn of the wait loop: a key is still missing, time.sleep(0.1)
sync_inputs_wait ==
    /\ pc = "sync_inputs_from_nt"
    /\ SyncKeysMissing
    /\ published' = <<>>
    /\ lastOp' = Op("sync_inputs_from_nt", None, NoRecord, "waiting")
    /\ UNCHANGED <<nt, connected, status_label, pending, focus, questnav_vars>>

\* the wait loop ends: the rest of sync_inputs_from_nt and of periodic_update
sync_inputs_return ==
    /\ pc = "sync_inputs_from_nt"
    /\ ~SyncKeysMissing
    /\ FinishConnectedUpdate(TRUE, pending)
    /\ published' = <<>>
    /\ lastOp' = Op("periodic_update", None, qn_Record, "waited")
    /\ UNCHANGED <<nt, connected, status_label, focus>>

----------------------------------------------------------------------------
(* questnav.py: environment steps *)

\* another client (the robot) sets a key of the table
qn_RemoteWrite(w) ==
    /\ nt' = NtSet(nt, <<w>>)
    /\ published' = <<>>
    /\ lastOp' = Op("remote_write", None, NoRecord, "-")
    /\ UNCHANGED <<connected, status_label, pending, focus, questnav_vars>>

\* the client connects to, or loses, the server
qn_ConnectionChange ==
    /\ connected' = ~connected
    /\ published' = <<>>
    /\ lastOp' = Op("connection", None, NoRecord, "-")
    /\ UNCHANGED <<nt, status_label, pending, focus, questnav_vars>>

----------------------------------------------------------------------------
(* Specification *)

\* the state either __init__ builds, at its final call of periodic_update():
\* what HexDataDashboard.__init__ sets, what QuestNavManagerDashboard.__init__
\* sets, and what both set (the client, the status label, the first tick)
HexDataDashboard_init ==
    /\ dot_nodes = [c \in DotIds |->
                       [is_active |-> FALSE, is_flagged |-> FALSE, has_algae |-> FALSE]]
    /\ hexagon_sides = [h \in HexIds |-> [is_flagged |-> FALSE]]
    /\ fill = [c \in DotIds \cup HexIds |->
                  IF c \in DotIds /\ DotRegistry[c].type = "green"
                  THEN COLORS.green ELSE COLORS.purple]
    /\ currently_hovered_id = None
    /\ redraws = <<>>
    /\ reads = 0
    /\ chain = <<>>

QuestNavManagerDashboard_init ==
    /\ initial_sync_done = FALSE
    /\ enabled_var = TRUE
    /\ field_var = "-1"
    /\ layout_var = "-1"
    /\ tag_data = [t \in TagIds |->
                      [current_filter |-> NoName, filtered_photos |-> {}, image |-> "original"]]
    /\ pc = "mainloop"

ClientInit ==
    /\ nt = [p \in {} |-> ""]
    /\ connected = FALSE
    /\ status_label = "Connecting..."
    /\ pending = 1
    /\ lastOp = Op("__init__", None, NoRecord, "-")
    /\ published = <<>>

\* reef.py runs
Init ==
    /\ HexDataDashboard_init
    /\ QuestNavManagerDashboard_init
    /\ ClientInit
    /\ focus \in Focuses

\* questnav.py runs
QuestNavInit ==
    /\ HexDataDashboard_init
    /\ QuestNavManagerDashboard_init
    /\ ClientInit
    /\ focus \in QuestNavFocuses

\* one of the two programs runs
AppInit ==
    /\ HexDataDashboard_init
    /\ QuestNavManagerDashboard_init
    /\ ClientInit
    /\ focus \in Focuses \cup QuestNavFocuses

\* a step of reef.py leaves what only questnav.py has alone
Reef(step) == focus.app = "reef" /\ step /\ UNCHANGED questnav_vars

Next ==
    \/ \E c \in PointerDots : Reef(handle_left_click(c))
    \/ \E c \in PointerDots : Reef(handle_right_click(c))
    \/ \E h \in PointerHexSides : Reef(handle_hex_side_toggle(h))
    \/ \E c \in PointerDots : Reef(on_dot_enter(c))
    \/ Reef(on_dot_leave)
    \/ Reef(periodic_update)
    \/ \E p \in RemotePaths, v \in RemoteValues : Reef(RemoteWrite(p, v))
    \/ Reef(ConnectionChange)

Spec == Init /\ [][Next]_vars

\* a step of questnav.py leaves what only reef.py has alone
QuestNav(step) == focus.app = "questnav" /\ step /\ UNCHANGED reef_vars

\* what the program does by itself: the timer fires, the wait loop turns
QuestNavProgram ==
    \/ QuestNav(qn_periodic_update)
    \/ QuestNav(sync_inputs_wait)
    \/ QuestNav(sync_inputs_return)

QuestNavNext ==
    \/ \E t \in focus.tags : QuestNav(handle_tag_click(t))
    \/ "on_calibrate_clicked" \in focus.handlers /\ QuestNav(on_calibrate_clicked)
    \/ "on_enabled_toggle" \in focus.handlers /\ QuestNav(on_enabled_toggle)
    \/ \E e \in {"field", "layout"}, text \in focus.texts : QuestNav(EntryEdit(e, text))
    \/ "on_apply_clicked" \in focus.handlers /\ QuestNav(on_apply_clicked)
    \/ "on_delete_clicked" \in focus.handlers /\ \E yes \in BOOLEAN : QuestNav(on_delete_clicked(yes))
    \/ QuestNav(qn_periodic_update)
    \/ QuestNav(sync_inputs_wait)
    \/ QuestNav(sync_inputs_return)
    \/ \E w \in focus.writes : QuestNav(qn_RemoteWrite(w))
    \/ QuestNav(qn_ConnectionChange)

QuestNavSpec == QuestNavInit /\ [][QuestNavNext]_vars

\* Tk runs a due timer callback, and a running callback goes on running; the
\* user and the robot owe nothing
QuestNavFairSpec == QuestNavSpec /\ WF_vars(QuestNavProgram)

AppNext == Next \/ QuestNavNext

AppSpec == AppInit /\ [][AppNext]_vars

----------------------------------------------------------------------------
(* Properties *)

\* a node's own topic as the interface names it: Side{n}/{branch}/{level} for a
\* purple dot, Side{n}/Algae for a green dot, Side{n}/State for a hexagon side
OwnPath(n) ==
    "/SmartDashboard/ReefState/Side" \o
    (IF n \in HexIds THEN ToString(HexRegistry[n]) \o "/State"
     ELSE IF DotRegistry[n].type = "green" THEN ToString(DotRegistry[n].side_id) \o "/Algae"
     ELSE ToString(DotRegistry[n].side_id) \o "/" \o ToString(DotRegistry[n].sub_reef_id)
          \o "/" \o DotRegistry[n].level_name)

\* the value held at a node's own topic, "" when the key is missing
OwnValue(n) == IF OwnPath(n) \in DOMAIN nt THEN nt[OwnPath(n)] ELSE ""

\* the (is_active, is_flagged) pair a marker value stands for
PairOf(value) ==
    IF value = "GAMEPIECE" THEN <<TRUE, FALSE>>
    ELSE IF value = "RESTRICTED" THEN <<FALSE, TRUE>>
    ELSE <<FALSE, FALSE>>

Pair(node) == <<node.is_active, node.is_flagged>>

\* C1: in every reachable state the fill colour of every dot is the priority
\* function of its state: red if flagged, else the toggled colour of its type
\* if active, else the hover colour of its type if it is the hovered dot, else
\* the default colour of its type.
C1_ColourIsPriorityFunction ==
    \A c \in DotIds :
        fill[c] =
            IF dot_nodes[c].is_flagged THEN "#FF4136"
            ELSE IF dot_nodes[c].is_active
                 THEN (IF DotRegistry[c].type = "purple" THEN "#FFFFFF" ELSE "#1a3b1f")
                 ELSE IF c = currently_hovered_id
                      THEN (IF DotRegistry[c].type = "purple" THEN "#be7dfd" ELSE "#98FB98")
                      ELSE (IF DotRegistry[c].type = "purple" THEN "#8A2BE2" ELSE "#39FF14")

\* C1 witness: the pointer has moved onto a dot that shows its hover colour while
\* another dot, not hovered, is flagged and red.
C1_Witness ==
    /\ lastOp.op = "on_dot_enter"
    /\ fill[currently_hovered_id] \in {"#be7dfd", "#98FB98"}
    /\ \E d \in DotIds : d # currently_hovered_id /\ dot_nodes[d].is_flagged /\ fill[d] = "#FF4136"

\* C2: in every reachable state every green dot has has_algae = is_active and
\* every purple dot has has_algae = FALSE.
C2_AlgaeMirrorsActive ==
    \A c \in DotIds :
        IF DotRegistry[c].type = "green"
        THEN dot_nodes[c].has_algae = dot_nodes[c].is_active
        ELSE dot_nodes[c].has_algae = FALSE

\* C3: a left click on an unflagged dot negates is_active and leaves is_flagged
\* FALSE (a green dot's has_algae becomes the new is_active); on a flagged dot it
\* clears is_flagged and keeps is_active; no other dot or hexagon side changes.
C3_LeftClick ==
    [][lastOp'.op = "handle_left_click" =>
        LET c == lastOp'.id
            old == dot_nodes[c]
            new == dot_nodes'[c]
        IN  /\ ~old.is_flagged =>
                /\ new.is_active = ~old.is_active
                /\ ~new.is_flagged
                /\ DotRegistry[c].type = "green" => new.has_algae = new.is_active
            /\ old.is_flagged => (~new.is_flagged /\ new.is_active = old.is_active)
            /\ \A d \in DotIds \ {c} : dot_nodes'[d] = dot_nodes[d]
            /\ hexagon_sides' = hexagon_sides]_vars

\* C3 witness: a left click has just cleared the flag of a flagged dot.
C3_Witness ==
    /\ lastOp.op = "handle_left_click"
    /\ lastOp.before.is_flagged
    /\ ~dot_nodes[lastOp.id].is_flagged
    /\ ~dot_nodes[lastOp.id].is_active

\* C4: a right click on a dot negates is_flagged; a dot that becomes flagged is
\* inactive afterwards, a dot that becomes unflagged keeps is_active; a right
\* click on a hexagon side negates its is_flagged; no other node changes.
C4_RightClick ==
    [][/\ lastOp'.op = "handle_right_click" =>
            LET c == lastOp'.id
                old == dot_nodes[c]
                new == dot_nodes'[c]
            IN  /\ new.is_flagged = ~old.is_flagged
                /\ new.is_flagged => ~new.is_active
                /\ ~new.is_flagged => new.is_active = old.is_active
                /\ \A d \in DotIds \ {c} : dot_nodes'[d] = dot_nodes[d]
                /\ hexagon_sides' = hexagon_sides
       /\ lastOp'.op = "handle_hex_side_toggle" =>
            LET h == lastOp'.id
            IN  /\ hexagon_sides'[h].is_flagged = ~hexagon_sides[h].is_flagged
                /\ \A g \in HexIds \ {h} : hexagon_sides'[g] = hexagon_sides[g]
                /\ dot_nodes' = dot_nodes]_vars

\* C4 witness: a right click has just flagged a dot that was active.
C4_Witness ==
    /\ lastOp.op = "handle_right_click"
    /\ lastOp.before.is_active
    /\ dot_nodes[lastOp.id].is_flagged
    /\ ~dot_nodes[lastOp.id].is_active

\* C5: every click handler publishes, in its own step and after the state
\* change, exactly one value to the clicked node's own topic: the encoding of
\* the node's state after the click; no other topic is written.
C5_ClickPublishesOwnState ==
    [][lastOp'.op \in ClickOps =>
        LET n == lastOp'.id
            value == IF n \in HexIds
                     THEN (IF hexagon_sides'[n].is_flagged THEN "RESTRICTED" ELSE "ALLOWED")
                     ELSE IF dot_nodes'[n].is_flagged THEN "RESTRICTED"
                     ELSE IF dot_nodes'[n].is_active THEN "GAMEPIECE" ELSE "EMPTY"
        IN  /\ published' = <<[path |-> OwnPath(n), value |-> value]>>
            /\ connected => (OwnPath(n) \in DOMAIN nt' /\ nt'[OwnPath(n)] = value)
            /\ \A p \in DOMAIN nt' \ {OwnPath(n)} : p \in DOMAIN nt /\ nt'[p] = nt[p]]_vars

\* C5 witness: a right click on the green dot of side 2 has just published
\* RESTRICTED to Side2/Algae.
C5_Witness ==
    /\ lastOp.op = "handle_right_click"
    /\ lastOp.id \in DotIds
    /\ DotRegistry[lastOp.id].type = "green"
    /\ published = <<[path |-> "/SmartDashboard/ReefState/Side2/Algae", value |-> "RESTRICTED"]>>
    /\ dot_nodes[lastOp.id].is_flagged

\* C6: after a poll tick that ran while connected, every dot's (is_active,
\* is_flagged) is the decoding of the value at the dot's own topic (EMPTY,
\* missing and unrecognised values give (FALSE, FALSE)), and every hexagon side
\* is flagged exactly when the value at its own topic is RESTRICTED.
C6_PullDecodes ==
    (lastOp.op = "periodic_update" /\ connected) =>
        /\ \A c \in DotIds : Pair(dot_nodes[c]) = PairOf(OwnValue(c))
        /\ \A h \in HexIds : hexagon_sides[h].is_flagged = (OwnValue(h) = "RESTRICTED")

\* C6 witness: a connected tick has just redrawn an active dot as inactive and
\* unflagged because its topic holds a value that is not a marker value.
C6_Witness ==
    /\ lastOp.op = "periodic_update"
    /\ connected
    /\ \E c \in DotIds :
          /\ OwnValue(c) = "ALLOWED"
          /\ c \in {redraws[i] : i \in 1..Len(redraws)}
          /\ Pair(dot_nodes[c]) = <<FALSE, FALSE>>
    /\ \E c \in DotIds : OwnValue(c) = "RESTRICTED" /\ dot_nodes[c].is_flagged

\* C7: a poll tick that runs while disconnected reads nothing and leaves every
\* node's flags and colour unchanged, setting only the status text to the
\* disconnected text; a tick that runs while connected sets the connected text.
C7_DisconnectedTickSkipsPull ==
    [][lastOp'.op = "periodic_update" =>
        IF connected
        THEN status_label' = "Connected to 127.0.0.1"
        ELSE /\ status_label' = "Disconnected - trying to connect to 127.0.0.1"
             /\ reads' = 0
             /\ dot_nodes' = dot_nodes
             /\ hexagon_sides' = hexagon_sides
             /\ fill' = fill
             /\ nt' = nt]_vars

\* C7 witness: a disconnected tick has just run while the table holds GAMEPIECE
\* for a dot that is locally inactive.
C7_Witness ==
    /\ lastOp.op = "periodic_update"
    /\ ~connected
    /\ reads = 0
    /\ status_label = "Disconnected - trying to connect to 127.0.0.1"
    /\ \E c \in DotIds : OwnValue(c) = "GAMEPIECE" /\ ~dot_nodes[c].is_active

\* C8: a connected pull that directly follows a connected pull changes no node
\* and no colour and redraws nothing, and the first of the two redrew each node
\* at most once.
C8_PullIdempotent ==
    [][(lastOp'.op = "periodic_update" /\ lastOp.op = "periodic_update" /\ connected) =>
        /\ dot_nodes' = dot_nodes
        /\ hexagon_sides' = hexagon_sides
        /\ fill' = fill
        /\ redraws' = <<>>
        /\ \A i, j \in 1..Len(redraws) : redraws[i] = redraws[j] => i = j]_vars

\* C8 witness: the second of two consecutive connected pulls has run on a state
\* in which the table had made a dot active and a node flagged.
C8_Witness ==
    /\ lastOp.op = "periodic_update"
    /\ lastOp.after = "periodic_update"
    /\ connected
    /\ status_label = "Connected to 127.0.0.1"
    /\ redraws = <<>>
    /\ \E c \in DotIds : dot_nodes[c].is_active /\ OwnValue(c) = "GAMEPIECE"
    /\ \/ \E c \in DotIds : dot_nodes[c].is_flagged
       \/ \E h \in HexIds : hexagon_sides[h].is_flagged

\* C9: a connected poll tick that directly follows a click made while connected
\* leaves the clicked node as the click left it: the published string, read back
\* from the topic the node is pulled from, decodes to the node's state.
C9_RoundTrip ==
    [][(lastOp'.op = "periodic_update" /\ lastOp.op \in ClickOps /\ connected) =>
        LET n == lastOp.id
        IN  IF n \in HexIds
            THEN hexagon_sides'[n].is_flagged = hexagon_sides[n].is_flagged
            ELSE Pair(dot_nodes'[n]) = Pair(dot_nodes[n])]_vars

\* C9 witness: a connected tick has run right after a right click that flagged a
\* dot, and the dot is still flagged.
C9_Witness ==
    /\ lastOp.op = "periodic_update"
    /\ lastOp.after = "handle_right_click"
    /\ connected
    /\ dot_nodes[lastOp.id].is_flagged
    /\ published = <<>>

\* C10: a connected poll tick that finds GAMEPIECE at Side2/0/L3 leaves the
\* marker of side 2, sub-reef 0, level L3 active and unflagged, and every other
\* marker in the state its own topic's value stands for.
C10_GamepieceAtSide2L3 ==
    [][(/\ lastOp'.op = "periodic_update"
        /\ connected
        /\ "/SmartDashboard/ReefState/Side2/0/L3" \in DOMAIN nt
        /\ nt["/SmartDashboard/ReefState/Side2/0/L3"] = "GAMEPIECE") =>
        \A c \in DotIds :
            IF /\ DotRegistry[c].side_id = 2
               /\ DotRegistry[c].sub_reef_id = 0
               /\ DotRegistry[c].level_name = "L3"
            THEN Pair(dot_nodes'[c]) = <<TRUE, FALSE>>
            ELSE /\ Pair(dot_nodes'[c]) = PairOf(OwnValue(c))
                 /\ Pair(dot_nodes[c]) = PairOf(OwnValue(c)) => dot_nodes'[c] = dot_nodes[c]]_vars

\* C10 witness: a connected tick has just redrawn the marker of side 2, sub-reef
\* 0, level L3 as active because Side2/0/L3 holds GAMEPIECE.
C10_Witness ==
    /\ lastOp.op = "periodic_update"
    /\ connected
    /\ "/SmartDashboard/ReefState/Side2/0/L3" \in DOMAIN nt
    /\ nt["/SmartDashboard/ReefState/Side2/0/L3"] = "GAMEPIECE"
    /\ \E c \in DotIds :
          /\ DotRegistry[c].side_id = 2
          /\ DotRegistry[c].sub_reef_id = 0
          /\ DotRegistry[c].level_name = "L3"
          /\ DotRegistry[c].radius_name = "level_2"
          /\ dot_nodes[c].is_active
          /\ ~dot_nodes[c].is_flagged
          /\ redraws = <<c>>

\* the three clicks of the cycle on one purple marker: a left click on an
\* unflagged inactive marker, the right click that directly follows it, the left
\* click that directly follows that one
IsCycleClick1(op, before) ==
    /\ op.op = "handle_left_click"
    /\ DotRegistry[op.id].type = "purple"
    /\ ~before.is_active
    /\ ~before.is_flagged

IsCycleClick2(op, ch) ==
    /\ op.op = "handle_right_click"
    /\ Len(ch) >= 1
    /\ IsCycleClick1([op |-> ch[Len(ch)].op, id |-> op.id], ch[Len(ch)].before)

IsCycleClick3(op, ch) ==
    /\ op.op = "handle_left_click"
    /\ Len(ch) >= 2
    /\ IsCycleClick2([op |-> ch[Len(ch)].op, id |-> op.id], SubSeq(ch, 1, Len(ch) - 1))

\* C11 as stated: from an unflagged inactive purple marker a left click makes it
\* active and white; the right click that follows makes it flagged and red with
\* is_active FALSE; the left click that follows makes it unflagged, still
\* inactive, and default purple.
C11_ClickCycleEndsDefaultPurple ==
    [][LET c == lastOp'.id
           new == dot_nodes'[c]
       IN  /\ IsCycleClick1(lastOp', dot_nodes[lastOp'.id]) =>
                  (new.is_active /\ ~new.is_flagged /\ fill'[c] = "#FFFFFF")
           /\ IsCycleClick2(lastOp', chain') =>
                  (new.is_flagged /\ ~new.is_active /\ fill'[c] = "#FF4136")
           /\ IsCycleClick3(lastOp', chain') =>
                  (~new.is_flagged /\ ~new.is_active /\ fill'[c] = "#8A2BE2")]_vars

\* C11: from an unflagged inactive purple marker a left click makes it active
\* and white; the right click that follows makes it flagged and red with
\* is_active FALSE; the left click that follows makes it unflagged and still
\* inactive, and gives it the colour of an unflagged inactive purple marker:
\* the purple hover colour if it is the currently hovered dot, else the default
\* purple.
C11_ClickCycle ==
    [][LET c == lastOp'.id
           new == dot_nodes'[c]
       IN  /\ IsCycleClick1(lastOp', dot_nodes[lastOp'.id]) =>
                  (new.is_active /\ ~new.is_flagged /\ fill'[c] = "#FFFFFF")
           /\ IsCycleClick2(lastOp', chain') =>
                  (new.is_flagged /\ ~new.is_active /\ fill'[c] = "#FF4136")
           /\ IsCycleClick3(lastOp', chain') =>
                  /\ ~new.is_flagged
                  /\ ~new.is_active
                  /\ fill'[c] = IF currently_hovered_id = c THEN "#be7dfd" ELSE "#8A2BE2"]_vars

\* C11 witness: the third click of the cycle has just been made on a purple
\* marker the pointer is on; the marker is unflagged, inactive and shows the
\* hover colour.
C11_Witness ==
    /\ IsCycleClick3(lastOp, chain)
    /\ lastOp.before.is_flagged
    /\ currently_hovered_id = lastOp.id
    /\ ~dot_nodes[lastOp.id].is_flagged
    /\ ~dot_nodes[lastOp.id].is_active
    /\ fill[lastOp.id] = "#be7dfd"

\* C12: on_dot_enter and on_dot_leave change only currently_hovered_id and dot
\* colours: no is_active, is_flagged or has_algae changes, nothing is published
\* and the table is untouched, and the colour of a dot that is active or
\* flagged, and of every hexagon side, stays as it was.
C12_HoverFrame ==
    [][lastOp'.op \in {"on_dot_enter", "on_dot_leave"} =>
        /\ dot_nodes' = dot_nodes
        /\ hexagon_sides' = hexagon_sides
        /\ published' = <<>>
        /\ nt' = nt
        /\ <<connected', status_label', pending'>> = <<connected, status_label, pending>>
        /\ \A c \in DotIds :
              (dot_nodes[c].is_active \/ dot_nodes[c].is_flagged) => fill'[c] = fill[c]
        /\ \A h \in HexIds : fill'[h] = fill[h]]_vars

\* C12 witness: the pointer has just moved from a dot that showed its hover
\* colour, and was redrawn, onto a dot that is active and keeps its toggled
\* colour.
C12_Witness ==
    /\ lastOp.op = "on_dot_enter"
    /\ currently_hovered_id = lastOp.id
    /\ dot_nodes[lastOp.id].is_active
    /\ fill[lastOp.id] \in {"#FFFFFF", "#1a3b1f"}
    /\ Len(redraws) = 1
    /\ redraws[1] # lastOp.id
    /\ fill[redraws[1]] \in {"#8A2BE2", "#39FF14"}

\* C15: local clicks and remote writes to one topic interleave freely and the
\* last write stays: a click handled while connected leaves its own value at
\* the clicked node's topic, a remote write leaves its value at one topic and
\* changes no local state; a click sets the node's state and colour from the
\* node's previous state alone, whatever the topic holds; a connected poll tick
\* makes every node the decoding of its topic's current value, also when that
\* discards a click; no poll tick writes to the table.
C15_LastWriteWinsPullOverwrites ==
    [][/\ lastOp'.op \in ClickOps =>
            LET n == lastOp'.id
            IN  /\ IF n \in HexIds
                   THEN /\ hexagon_sides'[n].is_flagged = ~hexagon_sides[n].is_flagged
                        /\ fill'[n] = IF hexagon_sides'[n].is_flagged THEN "#FF4136" ELSE "#8A2BE2"
                   ELSE /\ Pair(dot_nodes'[n]) =
                              IF lastOp'.op = "handle_left_click"
                              THEN (IF dot_nodes[n].is_flagged
                                    THEN <<dot_nodes[n].is_active, FALSE>>
                                    ELSE <<~dot_nodes[n].is_active, FALSE>>)
                              ELSE (IF dot_nodes[n].is_flagged
                                    THEN <<dot_nodes[n].is_active, FALSE>>
                                    ELSE <<FALSE, TRUE>>)
                        /\ fill'[n] # fill[n]
                /\ connected =>
                      nt'[OwnPath(n)] =
                          IF n \in HexIds
                          THEN (IF hexagon_sides'[n].is_flagged THEN "RESTRICTED" ELSE "ALLOWED")
                          ELSE IF dot_nodes'[n].is_flagged THEN "RESTRICTED"
                          ELSE IF dot_nodes'[n].is_active THEN "GAMEPIECE" ELSE "EMPTY"
       /\ lastOp'.op = "remote_write" =>
            /\ <<dot_nodes', hexagon_sides', fill'>> = <<dot_nodes, hexagon_sides, fill>>
            /\ \E p \in DOMAIN nt' :
                  /\ nt'[p] \in RemoteValues
                  /\ \A q \in DOMAIN nt' \ {p} : q \in DOMAIN nt /\ nt'[q] = nt[q]
            /\ lastOp'.id # None => nt'[OwnPath(lastOp'.id)] \in RemoteValues
       /\ lastOp'.op = "periodic_update" =>
            /\ nt' = nt
            /\ published' = <<>>
            /\ connected =>
                  /\ \A c \in DotIds : Pair(dot_nodes'[c]) = PairOf(OwnValue(c))
                  /\ \A h \in HexIds :
                        hexagon_sides'[h].is_flagged = (OwnValue(h) = "RESTRICTED")]_vars

\* C15 witness: a connected tick has just run after a click on a node and a
\* remote write to that node's topic, in this order, and has redrawn the node:
\* the click is discarded and the node shows the remote value.
C15_Witness ==
    /\ lastOp.op = "periodic_update"
    /\ lastOp.after = "remote_write"
    /\ lastOp.id # None
    /\ connected
    /\ lastOp.id \in {redraws[i] : i \in 1..Len(redraws)}
    /\ published = <<>>
    /\ IF lastOp.id \in HexIds
       THEN hexagon_sides[lastOp.id].is_flagged = (OwnValue(lastOp.id) = "RESTRICTED")
       ELSE Pair(dot_nodes[lastOp.id]) = PairOf(OwnValue(lastOp.id))

\* C17: in no reachable state is a dot both active and flagged, whatever the
\* clicks, the poll ticks and the values, recognised or not, in the table.
C17_NeverActiveAndFlagged ==
    \A c \in DotIds : ~(dot_nodes[c].is_active /\ dot_nodes[c].is_flagged)

\* C17 witness: a right click has just flagged a dot that was active, and left
\* it inactive, while the topic of another dot holds a value that is no marker
\* value.
C17_Witness ==
    /\ lastOp.op = "handle_right_click"
    /\ lastOp.before.is_active
    /\ dot_nodes[lastOp.id].is_flagged
    /\ ~dot_nodes[lastOp.id].is_active
    /\ chain = <<>>
    /\ \E d \in DotIds \ {lastOp.id} : OwnValue(d) = "ALLOWED"

\* C13: every execution of periodic_update, connected or not and whatever the
\* table holds, ends by scheduling exactly one next execution: an execution
\* that has begun comes to its end, and whenever no execution is under way
\* exactly one tick is pending.
C13_EveryTickReschedules ==
    /\ [](pc = "mainloop" => pending = 1)
    /\ (pc # "mainloop") ~> (pc = "mainloop" /\ pending = 1)

\* the value a reef click handler publishes for node n in the state after it
ClickValue(n, dots, hexes) ==
    IF n \in HexIds
    THEN (IF hexes[n].is_flagged THEN "RESTRICTED" ELSE "ALLOWED")
    ELSE IF dots[n].is_flagged THEN "RESTRICTED"
    ELSE IF dots[n].is_active THEN "GAMEPIECE" ELSE "EMPTY"

QuestNavWriters ==
    {"handle_tag_click", "on_calibrate_clicked", "on_enabled_toggle", "on_apply_clicked",
     "on_delete_clicked"}

\* C14 as stated: a handler that writes performs, while disconnected, the
\* publish calls it performs while connected: a reef click publishes the
\* node's value; in questnav a tag click publishes the tag id to SetActiveTag,
\* Calibrate publishes TRUE to SetCalibration, the Enabled toggle publishes the
\* new checkbox value, Apply with integer inputs publishes its three values.
C14_DisconnectedHandlersStillPublish ==
    [][~connected =>
        /\ lastOp'.op \in ClickOps =>
              published' = <<[path |-> OwnPath(lastOp'.id),
                              value |-> ClickValue(lastOp'.id, dot_nodes', hexagon_sides')]>>
        /\ lastOp'.op = "handle_tag_click" =>
              /\ Len(published') = 1
              /\ published'[1].path = "/SmartDashboard/QuestNavManager/SetActiveTag"
              /\ published'[1].value = lastOp'.id
        /\ lastOp'.op = "on_calibrate_clicked" =>
              /\ Len(published') = 1
              /\ published'[1].path = "/SmartDashboard/QuestNavManager/SetCalibration"
        /\ lastOp'.op = "on_enabled_toggle" =>
              /\ Len(published') = 1
              /\ published'[1].value = ~enabled_var
        /\ (lastOp'.op = "on_apply_clicked" /\ field_var = "2" /\ layout_var = "2") =>
              Len(published') = 3]_vars

\* C14: while disconnected a reef click handler performs the publish call it
\* performs while connected (the node's value to the node's topic); a questnav
\* handler that writes (tag click, Apply, Calibrate, Delete, Enabled toggle)
\* performs no publish call: it shows the warning and returns, leaving the
\* table and, but for the checkbox the Enabled toggle handles, the dashboard's
\* state as they were.
C14_DisconnectedHandlers ==
    [][~connected =>
        /\ lastOp'.op \in ClickOps =>
              published' = <<[path |-> OwnPath(lastOp'.id),
                              value |-> ClickValue(lastOp'.id, dot_nodes', hexagon_sides')]>>
        /\ lastOp'.op \in QuestNavWriters =>
              /\ published' = <<>>
              /\ nt' = nt
              /\ lastOp'.after = "showwarning"
              /\ <<initial_sync_done', field_var', layout_var', tag_data', pc', pending'>>
                    = <<initial_sync_done, field_var, layout_var, tag_data, pc, pending>>
              /\ lastOp'.op # "on_enabled_toggle" => enabled_var' = enabled_var]_vars

\* C14 witness: Apply has just been clicked while disconnected, with integer
\* texts in both entries that differ from the table's values: the warning was
\* shown, nothing was published and the table holds the old values.
C14_Witness ==
    /\ lastOp.op = "on_apply_clicked"
    /\ lastOp.after = "showwarning"
    /\ ~connected
    /\ published = <<>>
    /\ field_var = "2"
    /\ layout_var = "2"
    /\ "/SmartDashboard/QuestNavManager/SelectedFieldIndex" \in DOMAIN nt
    /\ nt["/SmartDashboard/QuestNavManager/SelectedFieldIndex"] = 0
    /\ "/SmartDashboard/QuestNavManager/Changed" \notin DOMAIN nt

\* SelectedFieldIndex or SelectedLayoutIndex is not in the table
IndexKeyMissing ==
    \/ "/SmartDashboard/QuestNavManager/SelectedFieldIndex" \notin DOMAIN nt
    \/ "/SmartDashboard/QuestNavManager/SelectedLayoutIndex" \notin DOMAIN nt

\* C16: a connected tick with initial_sync_done FALSE that finds one of the two
\* index keys missing stays inside sync_inputs_from_nt; while a key is missing
\* no handler runs, no tick is scheduled, initial_sync_done stays FALSE and the
\* inputs keep their values, also when the connection drops; the callback
\* returns only with both keys present, and then the field and layout texts
\* and the checkbox are the table's values (Enabled defaults to TRUE),
\* initial_sync_done is TRUE and one tick is scheduled; a disconnected tick
\* sets initial_sync_done to FALSE.
C16_InitialSyncWaitsForKeys ==
    [][/\ (/\ lastOp'.op = "periodic_update"
           /\ pc = "mainloop"
           /\ connected
           /\ ~initial_sync_done
           /\ IndexKeyMissing) =>
              (pc' = "sync_inputs_from_nt" /\ pending' = 0 /\ ~initial_sync_done')
       /\ pc = "sync_inputs_from_nt" =>
              /\ lastOp'.op \in {"sync_inputs_from_nt", "periodic_update", "remote_write",
                                 "connection"}
              /\ IndexKeyMissing =>
                    /\ lastOp'.op # "periodic_update"
                    /\ pc' = "sync_inputs_from_nt"
                    /\ pending' = 0
                    /\ ~initial_sync_done'
                    /\ <<field_var', layout_var', enabled_var', tag_data', status_label'>>
                          = <<field_var, layout_var, enabled_var, tag_data, status_label>>
       /\ (/\ lastOp'.op = "periodic_update"
           /\ pc = "sync_inputs_from_nt" \/ (connected /\ ~initial_sync_done /\ ~IndexKeyMissing)) =>
              /\ field_var' = ToString(nt["/SmartDashboard/QuestNavManager/SelectedFieldIndex"])
              /\ layout_var' = ToString(nt["/SmartDashboard/QuestNavManager/SelectedLayoutIndex"])
              /\ enabled_var' = IF "/SmartDashboard/QuestNavManager/Enabled" \in DOMAIN nt
                                THEN nt["/SmartDashboard/QuestNavManager/Enabled"] ELSE TRUE
              /\ initial_sync_done'
              /\ pc' = "mainloop"
              /\ pending' = 1
       /\ (lastOp'.op = "periodic_update" /\ pc = "mainloop" /\ ~connected) =>
              (~initial_sync_done' /\ pending' = 1)]_vars

\* C16 witness: periodic_update has just returned after waiting in the loop;
\* the connection dropped during the wait, and the inputs hold the table's
\* values, which differ from the initial ones.
C16_Witness ==
    /\ lastOp.op = "periodic_update"
    /\ lastOp.after = "waited"
    /\ ~connected
    /\ initial_sync_done
    /\ pc = "mainloop"
    /\ pending = 1
    /\ field_var = "0"
    /\ layout_var = "1"
    /\ ~enabled_var
    /\ status_label = "Connected to 127.0.0.1"

\* C18: a toggle of the Enabled checkbox made while disconnected publishes
\* nothing and leaves the checkbox at the value it had before the toggle,
\* whether or not the table has the Enabled key.
C18_DisconnectedToggleReverts ==
    [][(lastOp'.op = "on_enabled_toggle" /\ ~connected) =>
        /\ published' = <<>>
        /\ enabled_var' = enabled_var]_vars

\* C19: a toggle of the Enabled checkbox made while connected publishes the new
\* checkbox value to the key Enabled, the key sync_inputs_from_nt and the
\* disconnected branch of on_enabled_toggle read, so that the table's Enabled
\* value is the value the user chose.
C19_TogglePublishesEnabledKey ==
    [][(lastOp'.op = "on_enabled_toggle" /\ connected) =>
        /\ enabled_var' = ~enabled_var
        /\ Len(published') = 1
        /\ published'[1].value = enabled_var'
        /\ published'[1].path = "/SmartDashboard/QuestNavManager/Enabled"
        /\ "/SmartDashboard/QuestNavManager/Enabled" \in DOMAIN nt'
        /\ nt'["/SmartDashboard/QuestNavManager/Enabled"] = enabled_var']_vars

\* the filter the table's values require of tag t
RequiredOf(t) ==
    LET tag_path == "/SmartDashboard/QuestNavManager/Tags/" \o ToString(t)
        failed == tag_path \in DOMAIN nt /\ nt[tag_path] = 0
        active == /\ "/SmartDashboard/QuestNavManager/ActiveTag" \in DOMAIN nt
                  /\ nt["/SmartDashboard/QuestNavManager/ActiveTag"] = t
    IN  IF failed /\ active THEN "magenta"
        ELSE IF failed THEN "red"
        ELSE IF active THEN "blue"
        ELSE "original"

\* C20: after every connected tick every registered tag shows the image the
\* table's values require (magenta for status 0 and active, red for status 0
\* only, blue for active only, the original otherwise), and current_filter
\* names the image shown.
C20_TagImagesFollowTable ==
    (lastOp.op = "periodic_update" /\ connected /\ pc = "mainloop") =>
        \A t \in DOMAIN tag_data :
            /\ tag_data[t].image = RequiredOf(t)
            /\ tag_data[t].current_filter =
                  IF tag_data[t].image = "original" THEN "None" ELSE tag_data[t].image

====
